---- MODULE Spec2Model ----
(***************************************************************************)
(* dbcrossbar: the argument bundles and their verification handshake       *)
(* (args.rs), the Google Cloud Storage locator (drivers/gs/mod.rs) and the *)
(* BigQuery table support (drivers/bigquery_shared/table.rs).              *)
(***************************************************************************)
EXTENDS Integers, Sequences, FiniteSets, TLC

VARIABLES
    \* -- the verification handshake (args.rs)
    features,    \* the Features value a bundle is verified against
    bundle,      \* the argument bundle handed to verify()
    origin,      \* which constructor built the bundle: "new" or "for_temporary"
    result,      \* what verify() returned
    first,       \* the first verified bundle of this run (Option)
    rounds,      \* how many times the bundle has been rebuilt and verified again
    pc,          \* position of the handshake
    \* -- a data operation of the gs driver (drivers/gs/mod.rs)
    op,          \* the data operation invoked, with the bundles as it received them
    held,        \* the bundles the operation holds, by kind
    against,     \* the Features each held bundle was verified against (Option)
    lastRead,    \* the last bundle whose fields were read (Option)
    dpc,         \* position of the data operation
    \* -- a transfer (the engine's path choice)
    source,      \* driver of the source locator
    dest,        \* driver of the destination locator
    source_features,
    dest_features,
    other_supports,  \* supports_write_remote_data of a destination other than gs
    temp_locators, \* the temporary locators: who accepts each
    tidx,        \* next temporary locator to look at
    path,        \* the path chosen
    chosen,      \* index of the temporary locator chosen (0: none)
    calls,       \* the driver data operations invoked, in order
    xpc,         \* position of the engine
    \* -- GsLocator::from_str
    s,           \* the string to parse
    located,     \* what from_str returned (Option)
    \* -- Table::bigquery_can_import_from_csv
    columns,     \* what each column's bigquery_can_import_from_csv() returns
    replacedAt,  \* position of the column replaced by a non-importable one (0: none)
    can_import,  \* what the table's bigquery_can_import_from_csv() returned (Option)
    \* -- BqTable::write_import_sql
    table,       \* the BqTable
    out,         \* what has been written to f
    col,         \* loop index
    sql_result,  \* what write_import_sql returned (Option)
    spc          \* position in write_import_sql

argsVars == <<features, bundle, origin, result, first, rounds, pc>>
drvVars == <<op, held, against, lastRead, dpc>>
xferVars == <<source, dest, source_features, dest_features, other_supports,
              temp_locators, tidx, path, chosen, calls, xpc>>
gsVars == <<s, located>>
tblVars == <<columns, replacedAt, can_import>>
sqlVars == <<table, out, col, sql_result, spc>>

vars == <<argsVars, drvVars, xferVars, gsVars, tblVars, sqlVars>>

----------------------------------------------------------------------------
(* Bounds of the model. *)

\* number of distinct --from-args / --to-args keys
MaxArgs == 2
\* number of distinct WHERE clause texts (besides the empty text)
MaxWhere == 1
\* number of distinct schemas / temporary storage lists (besides the empty one)
MaxShared == 1
\* how many times a verified bundle is rebuilt and verified again
MaxRounds == 2

----------------------------------------------------------------------------
(* Option<T> and Result<T>. *)

None == <<>>
Some(x) == <<x>>
is_some(o) == o # <<>>

\* (the fields of every record are written in alphabetical order)
Ok(v) == [err |-> "", ok |-> TRUE, value |-> Some(v)]
Err(msg) == [err |-> msg, ok |-> FALSE, value |-> None]

----------------------------------------------------------------------------
(* Flag sets (bitflags!) and Features. *)

SourceArgumentsFeatures == {"DRIVER_ARGS", "WHERE_CLAUSE"}
DestinationArgumentsFeatures == {"DRIVER_ARGS"}
IfExistsFeatures == {"ERROR", "APPEND", "OVERWRITE", "UPSERT"}
LocatorFeatures == {"LOCAL_DATA", "WRITE_LOCAL_DATA", "WRITE_REMOTE_DATA", "WRITE_SCHEMA"}

GsLocator_features_swapped ==
    [dest_args |-> {},
     dest_if_exists |-> {},
     locator |-> {"LOCAL_DATA", "WRITE_LOCAL_DATA"},
     source_args |-> {},
     write_schema_if_exists |-> {"OVERWRITE"}]

GsLocator_features ==
    [dest_args |-> {},
     dest_if_exists |-> {"OVERWRITE"},
     locator |-> {"LOCAL_DATA", "WRITE_LOCAL_DATA"},
     source_args |-> {},
     write_schema_if_exists |-> {}]

\* The Features values verification is exercised with: every combination of
\* the four flag sets verify() can read, and the gs driver's declaration.
FeaturesSet ==
    [dest_args : SUBSET DestinationArgumentsFeatures,
     dest_if_exists : SUBSET IfExistsFeatures,
     locator : {{}},
     source_args : SUBSET SourceArgumentsFeatures,
     write_schema_if_exists : SUBSET IfExistsFeatures]
    \cup {GsLocator_features}

----------------------------------------------------------------------------
(* Field values. *)

\* DriverArguments: a map from keys to values, as a set of <<key, value>>.
DriverArgumentsSet ==
    { {<<k, "v">> : k \in K} : K \in SUBSET (1..MaxArgs) }
DriverArguments_default == {}
is_empty(driver_args) == driver_args = {}

WhereClauses == {None, Some(0)} \cup {Some(w) : w \in 1..MaxWhere}

IfExistsSet == {"Error", "Append", "Overwrite", "Upsert"}

Schemas == {<<>>} \cup {<<c>> : c \in 1..MaxShared}
TemporaryStorages == {<<>>} \cup {<<t>> : t \in 1..MaxShared}

----------------------------------------------------------------------------
(* IfExists::verify: fails if the requested policy is not in the flag set. *)

IfExists_flag(if_exists) ==
    CASE if_exists = "Error" -> "ERROR"
      [] if_exists = "Append" -> "APPEND"
      [] if_exists = "Overwrite" -> "OVERWRITE"
      [] if_exists = "Upsert" -> "UPSERT"

IfExists_verify(self, flags) ==
    IF IfExists_flag(self) \in flags THEN Ok(self) ELSE Err("if-exists not supported")

----------------------------------------------------------------------------
(* SharedArguments. *)

SharedArguments_new(schema, temporary_storage) ==
    [kind |-> "shared", schema |-> schema, state |-> "Unverified",
     temporary_storage |-> temporary_storage]

SharedArguments_verify_loses_storage(self, f) ==
    Ok([kind |-> "shared", schema |-> self.schema, state |-> "Verified",
        temporary_storage |-> <<>>])

SharedArguments_verify(self, f) ==
    Ok([kind |-> "shared", schema |-> self.schema, state |-> "Verified",
        temporary_storage |-> self.temporary_storage])

SharedArguments_schema(self) == self.schema
SharedArguments_temporary_storage(self) == self.temporary_storage

----------------------------------------------------------------------------
(* SourceArguments. *)

SourceArguments_new(driver_args, where_clause) ==
    [driver_args |-> driver_args, kind |-> "source", state |-> "Unverified",
     where_clause |-> where_clause]

SourceArguments_for_temporary == SourceArguments_new(DriverArguments_default, None)

SourceArguments_verify_no_where_check(self, f) ==
    IF "DRIVER_ARGS" \notin f.source_args /\ ~is_empty(self.driver_args)
    THEN Err("this data source does not support --from-args")
    ELSE Ok([driver_args |-> self.driver_args, kind |-> "source",
             state |-> "Verified", where_clause |-> self.where_clause])

SourceArguments_verify(self, f) ==
    IF "DRIVER_ARGS" \notin f.source_args /\ ~is_empty(self.driver_args)
    THEN Err("this data source does not support --from-args")
    ELSE IF "WHERE_CLAUSE" \notin f.source_args /\ is_some(self.where_clause)
    THEN Err("this data source does not support --where")
    ELSE Ok([driver_args |-> self.driver_args, kind |-> "source",
             state |-> "Verified", where_clause |-> self.where_clause])

SourceArguments_driver_args(self) == self.driver_args
SourceArguments_where_clause(self) == self.where_clause

----------------------------------------------------------------------------
(* DestinationArguments. *)

DestinationArguments_new(driver_args, if_exists) ==
    [driver_args |-> driver_args, if_exists |-> if_exists, kind |-> "dest",
     state |-> "Unverified"]

DestinationArguments_for_temporary ==
    DestinationArguments_new(DriverArguments_default, "Overwrite")

DestinationArguments_verify_schema_flags(self, f) ==
    IF "DRIVER_ARGS" \notin f.dest_args /\ ~is_empty(self.driver_args)
    THEN Err("this data destination does not support --to-args")
    ELSE IF ~IfExists_verify(self.if_exists, f.write_schema_if_exists).ok
    THEN Err(IfExists_verify(self.if_exists, f.write_schema_if_exists).err)
    ELSE Ok([driver_args |-> self.driver_args, if_exists |-> self.if_exists,
             kind |-> "dest", state |-> "Verified"])

DestinationArguments_verify(self, f) ==
    IF "DRIVER_ARGS" \notin f.dest_args /\ ~is_empty(self.driver_args)
    THEN Err("this data destination does not support --to-args")
    ELSE IF ~IfExists_verify(self.if_exists, f.dest_if_exists).ok
    THEN Err(IfExists_verify(self.if_exists, f.dest_if_exists).err)
    ELSE Ok([driver_args |-> self.driver_args, if_exists |-> self.if_exists,
             kind |-> "dest", state |-> "Verified"])

DestinationArguments_driver_args(self) == self.driver_args
DestinationArguments_if_exists(self) == self.if_exists

----------------------------------------------------------------------------
(* The handshake: construct a bundle, verify it, read the verified bundle   *)
(* through its accessors, build a bundle from what was read, verify again.  *)

verify(self, f) ==
    CASE self.kind = "shared" -> SharedArguments_verify(self, f)
      [] self.kind = "source" -> SourceArguments_verify(self, f)
      [] self.kind = "dest" -> DestinationArguments_verify(self, f)

\* An Unverified bundle built from the accessors of a Verified one.
Rebuilt(v) ==
    CASE v.kind = "shared" ->
            SharedArguments_new(SharedArguments_schema(v),
                                SharedArguments_temporary_storage(v))
      [] v.kind = "source" ->
            SourceArguments_new(SourceArguments_driver_args(v),
                                SourceArguments_where_clause(v))
      [] v.kind = "dest" ->
            DestinationArguments_new(DestinationArguments_driver_args(v),
                                     DestinationArguments_if_exists(v))

\* The variables of the parts of the program a specification leaves alone.
ArgsIdle ==
    /\ features = None /\ bundle = None /\ origin = "none" /\ result = None
    /\ first = None /\ rounds = 0 /\ pc = "idle"
DrvIdle ==
    /\ op = None /\ held = None /\ against = None /\ lastRead = None /\ dpc = "idle"
XferIdle ==
    /\ source = "none" /\ dest = "none" /\ source_features = None
    /\ dest_features = None /\ other_supports = FALSE /\ temp_locators = <<>>
    /\ tidx = 0 /\ path = "none" /\ chosen = 0 /\ calls = <<>> /\ xpc = "idle"
GsIdle == s = <<>> /\ located = None
TblIdle == columns = <<>> /\ replacedAt = 0 /\ can_import = None
SqlIdle ==
    /\ table = None /\ out = <<>> /\ col = 0 /\ sql_result = None /\ spc = "idle"

ArgsInit ==
    /\ features \in FeaturesSet
    /\ bundle = None
    /\ origin = "none"
    /\ result = None
    /\ first = None
    /\ rounds = 0
    /\ pc = "start"
    /\ DrvIdle /\ XferIdle /\ GsIdle /\ TblIdle /\ SqlIdle

\* A constructor returned: the bundle is in the Unverified state.
Constructed(how) ==
    /\ origin' = how
    /\ pc' = "new"
    /\ UNCHANGED <<features, result, first, rounds>>
    /\ UNCHANGED <<drvVars, xferVars, gsVars, tblVars, sqlVars>>

NewShared ==
    /\ pc = "start"
    /\ \E schema \in Schemas, temps \in TemporaryStorages :
            /\ bundle' = Some(SharedArguments_new(schema, temps))
            /\ Constructed("new")

NewSource ==
    /\ pc = "start"
    /\ \E driver_args \in DriverArgumentsSet, where_clause \in WhereClauses :
            /\ bundle' = Some(SourceArguments_new(driver_args, where_clause))
            /\ Constructed("new")

NewDestination ==
    /\ pc = "start"
    /\ \E driver_args \in DriverArgumentsSet, if_exists \in IfExistsSet :
            /\ bundle' = Some(DestinationArguments_new(driver_args, if_exists))
            /\ Constructed("new")

SourceForTemporary ==
    /\ pc = "start"
    /\ bundle' = Some(SourceArguments_for_temporary)
    /\ Constructed("for_temporary")

DestinationForTemporary ==
    /\ pc = "start"
    /\ bundle' = Some(DestinationArguments_for_temporary)
    /\ Constructed("for_temporary")

\* verify() exists for the Unverified state only; it consumes the bundle.
Verify ==
    /\ pc = "new"
    /\ bundle[1].state = "Unverified"
    /\ result' = verify(bundle[1], features)
    /\ pc' = IF result'.ok THEN "verified" ELSE "failed"
    /\ first' = IF result'.ok /\ first = None THEN result'.value ELSE first
    /\ UNCHANGED <<features, bundle, origin, rounds>>
    /\ UNCHANGED <<drvVars, xferVars, gsVars, tblVars, sqlVars>>

\* The accessors exist for the Verified state only: what they return is put
\* in a new Unverified bundle, to be verified again.
Reverify ==
    /\ pc = "verified"
    /\ rounds < MaxRounds
    /\ result.value[1].state = "Verified"
    /\ bundle' = Some(Rebuilt(result.value[1]))
    /\ rounds' = rounds + 1
    /\ pc' = "new"
    /\ UNCHANGED <<features, origin, result, first>>
    /\ UNCHANGED <<drvVars, xferVars, gsVars, tblVars, sqlVars>>

ArgsNext ==
    \/ NewShared
    \/ NewSource
    \/ NewDestination
    \/ SourceForTemporary
    \/ DestinationForTemporary
    \/ Verify
    \/ Reverify

SpecArgs == ArgsInit /\ [][ArgsNext]_vars

\* verify() has returned for the bundle in `bundle`.
Returned == pc \in {"verified", "failed"}

\* C1: SourceArguments::verify succeeds if and only if (driver_args is empty
\* or source_args contains DRIVER_ARGS) and (where_clause is absent or
\* source_args contains WHERE_CLAUSE); otherwise it returns an error and no
\* verified bundle.
C1_SourceVerify ==
    (Returned /\ bundle[1].kind = "source") =>
        /\ result.ok <=>
              /\ (bundle[1].driver_args = {} \/ "DRIVER_ARGS" \in features.source_args)
              /\ (bundle[1].where_clause = None \/ "WHERE_CLAUSE" \in features.source_args)
        /\ result.ok => /\ result.value # None
                        /\ result.value[1].state = "Verified"
        /\ ~result.ok => result.value = None /\ result.err # ""

\* a WHERE clause alone (even the empty text), refused for want of WHERE_CLAUSE
C1_Witness ==
    /\ pc = "failed" /\ bundle[1].kind = "source"
    /\ bundle[1].driver_args = {} /\ bundle[1].where_clause = Some(0)
    /\ "DRIVER_ARGS" \in features.source_args
    /\ result.err = "this data source does not support --where"

\* C2: DestinationArguments::verify fails when driver_args is non-empty and
\* dest_args lacks DRIVER_ARGS, fails when the if_exists policy is not in
\* dest_if_exists, and succeeds otherwise; write_schema_if_exists is never
\* what decides.
C2_DestinationVerify ==
    (Returned /\ bundle[1].kind = "dest") =>
        /\ (bundle[1].driver_args # {} /\ "DRIVER_ARGS" \notin features.dest_args)
              => ~result.ok
        /\ IfExists_flag(bundle[1].if_exists) \notin features.dest_if_exists
              => ~result.ok
        /\ (/\ (bundle[1].driver_args = {} \/ "DRIVER_ARGS" \in features.dest_args)
            /\ IfExists_flag(bundle[1].if_exists) \in features.dest_if_exists)
              => /\ result.ok
                 /\ result.value[1].state = "Verified"

\* a policy the schema-write flags lack and the destination flags hold: accepted
C2_Witness ==
    /\ pc = "verified" /\ bundle[1].kind = "dest"
    /\ bundle[1].driver_args # {}
    /\ IfExists_flag(bundle[1].if_exists) \notin features.write_schema_if_exists
    /\ IfExists_flag(bundle[1].if_exists) \in features.dest_if_exists

\* The fields of a bundle, whatever its state tag.
Fields(b) == [b EXCEPT !.state = "-"]

\* C9: a successful verify yields a bundle with the fields of its input, and
\* verifying again what the verified bundle holds, against the same Features,
\* succeeds and yields an equal bundle.
C9_VerifyIdempotent ==
    /\ pc = "verified" =>
          /\ Fields(result.value[1]) = Fields(bundle[1])
          /\ result.value[1].state = "Verified"
          /\ result.value = first
    /\ rounds > 0 => pc # "failed"

\* a shared bundle with temporary storage, verified a second time
C9_Witness ==
    /\ pc = "verified" /\ rounds > 0
    /\ bundle[1].kind = "shared"
    /\ bundle[1].temporary_storage # <<>>
    /\ bundle[1].schema # <<>>

\* C10: SourceArguments::for_temporary() verifies against every Features;
\* DestinationArguments::for_temporary() verifies against every Features
\* whose dest_if_exists contains OVERWRITE, and GsLocator::features() is one.
C10_ForTemporary ==
    /\ (Returned /\ origin = "for_temporary" /\ bundle[1].kind = "source")
          => result.ok
    /\ (Returned /\ origin = "for_temporary" /\ bundle[1].kind = "dest"
          /\ "OVERWRITE" \in features.dest_if_exists)
          => result.ok
    /\ (Returned /\ origin = "for_temporary" /\ features = GsLocator_features)
          => result.ok

\* the destination bundle for temporary storage, verified against gs
C10_Witness ==
    /\ pc = "verified" /\ origin = "for_temporary"
    /\ bundle[1].kind = "dest" /\ bundle[1].if_exists = "Overwrite"
    /\ features = GsLocator_features

----------------------------------------------------------------------------
(* The data operations of the gs driver. GsLocator::local_data,             *)
(* write_local_data and write_remote_data take their bundles in the         *)
(* Unverified state and hand them to a helper, which has to verify a bundle *)
(* before it can read it: the accessors exist for the Verified state only.  *)

Kinds == {"shared", "source", "dest"}

\* The accessors of a bundle are defined in `impl ...Arguments<Verified>`.
CanRead_any_state(b) == TRUE

CanRead(b) == b.state = "Verified"

\* A driver that supports every option.
PermissiveFeatures ==
    [dest_args |-> DestinationArgumentsFeatures,
     dest_if_exists |-> IfExistsFeatures,
     locator |-> LocatorFeatures,
     source_args |-> SourceArgumentsFeatures,
     write_schema_if_exists |-> IfExistsFeatures]

\* The Features a helper may verify a bundle against.
HelperFeatures == {GsLocator_features, PermissiveFeatures}

DrvShared == {SharedArguments_new(<<>>, t) : t \in TemporaryStorages}
DrvSource ==
    {SourceArguments_new(d, w) : d \in DriverArgumentsSet, w \in WhereClauses}
DrvDest ==
    {DestinationArguments_new(d, e) : d \in DriverArgumentsSet, e \in IfExistsSet}

DrvInit ==
    /\ op = None
    /\ held = None
    /\ against = None
    /\ lastRead = None
    /\ dpc = "start"
    /\ ArgsIdle /\ XferIdle /\ GsIdle /\ TblIdle /\ SqlIdle

\* The operation `name` was entered with the bundles of `held'`.
Entered(name) ==
    /\ op' = Some([name |-> name,
                   received |-> {held'[k][1].state : k \in {j \in Kinds : held'[j] # None}}])
    /\ against' = [k \in Kinds |-> None]
    /\ dpc' = "helper"
    /\ UNCHANGED lastRead
    /\ UNCHANGED <<argsVars, xferVars, gsVars, tblVars, sqlVars>>

GsLocator_local_data ==
    /\ dpc = "start"
    /\ \E shared_args \in DrvShared, source_args \in DrvSource :
            /\ held' = [k \in Kinds |->
                          CASE k = "shared" -> Some(shared_args)
                            [] k = "source" -> Some(source_args)
                            [] k = "dest" -> None]
            /\ Entered("local_data")

GsLocator_write_local_data ==
    /\ dpc = "start"
    /\ \E shared_args \in DrvShared, dest_args \in DrvDest :
            /\ held' = [k \in Kinds |->
                          CASE k = "shared" -> Some(shared_args)
                            [] k = "source" -> None
                            [] k = "dest" -> Some(dest_args)]
            /\ Entered("write_local_data")

GsLocator_write_remote_data ==
    /\ dpc = "start"
    /\ \E shared_args \in DrvShared, source_args \in DrvSource, dest_args \in DrvDest :
            /\ held' = [k \in Kinds |->
                          CASE k = "shared" -> Some(shared_args)
                            [] k = "source" -> Some(source_args)
                            [] k = "dest" -> Some(dest_args)]
            /\ Entered("write_remote_data")

\* The helper verifies a bundle it holds; a failure ends the operation.
HelperVerifies ==
    \E k \in Kinds, f \in HelperFeatures :
        /\ dpc = "helper"
        /\ held[k] # None
        /\ held[k][1].state = "Unverified"
        /\ LET r == verify(held[k][1], f) IN
              /\ held' = [held EXCEPT ![k] = r.value]
              /\ against' = [against EXCEPT ![k] = IF r.ok THEN Some(f) ELSE None]
              /\ dpc' = IF r.ok THEN "helper" ELSE "error"
        /\ UNCHANGED <<op, lastRead>>
        /\ UNCHANGED <<argsVars, xferVars, gsVars, tblVars, sqlVars>>

\* The helper reads the fields of a bundle it holds, where the accessors exist.
HelperReads ==
    \E k \in Kinds :
        /\ dpc = "helper"
        /\ held[k] # None
        /\ CanRead(held[k][1])
        /\ lastRead' = Some([against |-> against[k], bundle |-> held[k][1]])
        /\ UNCHANGED <<op, held, against, dpc>>
        /\ UNCHANGED <<argsVars, xferVars, gsVars, tblVars, sqlVars>>

HelperReturns ==
    /\ dpc = "helper"
    /\ dpc' = "done"
    /\ UNCHANGED <<op, held, against, lastRead>>
    /\ UNCHANGED <<argsVars, xferVars, gsVars, tblVars, sqlVars>>

DrvNext ==
    \/ GsLocator_local_data
    \/ GsLocator_write_local_data
    \/ GsLocator_write_remote_data
    \/ HelperVerifies
    \/ HelperReads
    \/ HelperReturns

SpecDriver == DrvInit /\ [][DrvNext]_vars

\* C3 (as stated): only verified bundles are passed to a driver's data
\* operations: every bundle a data operation receives is in the Verified state.
C3_OnlyVerifiedPassed ==
    op # None => op[1].received \subseteq {"Verified"}

\* C3 (amended): the data operations receive Unverified bundles; the fields of
\* a bundle are read only once a verify against some Features has succeeded
\* on it.
C3_ReadsOnlyVerified ==
    lastRead # None =>
        /\ lastRead[1].bundle.state = "Verified"
        /\ lastRead[1].against # None
        /\ verify(Rebuilt(lastRead[1].bundle), lastRead[1].against[1]).ok
        /\ op # None /\ op[1].received = {"Unverified"}

\* write_remote_data read the WHERE clause of the source bundle it verified
C3_Witness ==
    /\ lastRead # None
    /\ op[1].name = "write_remote_data"
    /\ lastRead[1].bundle.kind = "source"
    /\ lastRead[1].bundle.where_clause # None
    /\ lastRead[1].against = Some(PermissiveFeatures)

----------------------------------------------------------------------------
(* A transfer: the engine decides the path by the pairwise compatibility    *)
(* predicate and invokes the data operations of the path.                   *)

\* how many temporary locators a transfer is given
MaxTemps == 2

Drivers == {"bigquery", "gs", "csv"}

\* What a driver other than gs may declare (the flags the predicate reads).
OtherFeatures ==
    [dest_args : {{}},
     dest_if_exists : {{}},
     locator : SUBSET {"LOCAL_DATA", "WRITE_LOCAL_DATA", "WRITE_REMOTE_DATA"},
     source_args : {{}},
     write_schema_if_exists : {{}}]

FeaturesOf(driver) ==
    IF driver = "gs" THEN {GsLocator_features} ELSE OtherFeatures

\* source.as_any().is::<BigQueryLocator>()
GsLocator_supports_write_remote_data(src) == src = "bigquery"

supports_write_remote_data(dst, src) ==
    IF dst = "gs" THEN GsLocator_supports_write_remote_data(src) ELSE other_supports

\* A temporary locator, by who accepts it.
TempLocators == [dest_accepts : BOOLEAN, source_accepts : BOOLEAN]

RECURSIVE SeqsUpTo(_, _)
SeqsUpTo(S, n) ==
    IF n = 0 THEN {<<>>}
    ELSE SeqsUpTo(S, n - 1) \cup
         {Append(q, x) : q \in {r \in SeqsUpTo(S, n - 1) : Len(r) = n - 1}, x \in S}

XferInit ==
    /\ source \in Drivers
    /\ dest \in Drivers
    /\ source_features \in FeaturesOf(source)
    /\ dest_features \in FeaturesOf(dest)
    /\ source = dest => source_features = dest_features
    /\ other_supports \in BOOLEAN
    /\ dest = "gs" => other_supports = FALSE
    /\ temp_locators \in SeqsUpTo(TempLocators, MaxTemps)
    /\ tidx = 1
    /\ path = "none"
    /\ chosen = 0
    /\ calls = <<>>
    /\ xpc = "rule1"
    /\ ArgsIdle /\ DrvIdle /\ GsIdle /\ TblIdle /\ SqlIdle

\* Rule 1 never chooses the remote path.
CheckRule1_never ==
    /\ xpc = "rule1"
    /\ xpc' = "rule2"
    /\ UNCHANGED <<source, dest, source_features, dest_features, other_supports,
                   temp_locators, tidx, path, chosen, calls>>
    /\ UNCHANGED <<argsVars, drvVars, gsVars, tblVars, sqlVars>>

\* 1. dest.supports_write_remote_data(source) and both declare WRITE_REMOTE_DATA
CheckRule1 ==
    /\ xpc = "rule1"
    /\ IF /\ supports_write_remote_data(dest, source)
          /\ "WRITE_REMOTE_DATA" \in source_features.locator
          /\ "WRITE_REMOTE_DATA" \in dest_features.locator
       THEN path' = "remote" /\ xpc' = "execute"
       ELSE path' = path /\ xpc' = "rule2"
    /\ UNCHANGED <<source, dest, source_features, dest_features, other_supports,
                   temp_locators, tidx, chosen, calls>>
    /\ UNCHANGED <<argsVars, drvVars, gsVars, tblVars, sqlVars>>

\* 2. source declares LOCAL_DATA and destination declares WRITE_LOCAL_DATA
CheckRule2 ==
    /\ xpc = "rule2"
    /\ IF /\ "LOCAL_DATA" \in source_features.locator
          /\ "WRITE_LOCAL_DATA" \in dest_features.locator
       THEN path' = "streaming" /\ xpc' = "execute"
       ELSE path' = path /\ xpc' = "rule3"
    /\ UNCHANGED <<source, dest, source_features, dest_features, other_supports,
                   temp_locators, tidx, chosen, calls>>
    /\ UNCHANGED <<argsVars, drvVars, gsVars, tblVars, sqlVars>>

\* 3. the first temporary locator accepted by both sides; 4. else fail
CheckRule3 ==
    /\ xpc = "rule3"
    /\ IF tidx > Len(temp_locators)
       THEN path' = "no transfer path" /\ xpc' = "done"
            /\ UNCHANGED <<tidx, chosen>>
       ELSE IF /\ temp_locators[tidx].source_accepts
               /\ temp_locators[tidx].dest_accepts
       THEN path' = "staged" /\ chosen' = tidx /\ xpc' = "execute"
            /\ UNCHANGED tidx
       ELSE tidx' = tidx + 1 /\ UNCHANGED <<path, chosen, xpc>>
    /\ UNCHANGED <<source, dest, source_features, dest_features, other_supports,
                   temp_locators, calls>>
    /\ UNCHANGED <<argsVars, drvVars, gsVars, tblVars, sqlVars>>

\* 4.3 step 4; the two legs of a staged transfer are transfers of their own.
Execute ==
    /\ xpc = "execute"
    /\ calls' = CASE path = "remote" -> <<"destination.write_remote_data">>
                  [] path = "streaming" ->
                        <<"source.local_data", "destination.write_local_data">>
                  [] path = "staged" -> <<"source -> temp", "temp -> destination">>
    /\ xpc' = "done"
    /\ UNCHANGED <<source, dest, source_features, dest_features, other_supports,
                   temp_locators, tidx, path, chosen>>
    /\ UNCHANGED <<argsVars, drvVars, gsVars, tblVars, sqlVars>>

XferNext ==
    \/ CheckRule1
    \/ CheckRule2
    \/ CheckRule3
    \/ Execute

SpecTransfer == XferInit /\ [][XferNext]_vars

\* C4: from a BigQuery source to a gs:// destination,
\* gs.supports_write_remote_data(source) is true and the predicate chooses the
\* remote path: destination.write_remote_data is invoked, and neither
\* source.local_data nor destination.write_local_data.
C4_BigQueryToGsRemote ==
    (source = "bigquery" /\ dest = "gs") =>
        /\ supports_write_remote_data(dest, source)
        /\ xpc \in {"execute", "done"} => path = "remote"
        /\ xpc = "done" => calls = <<"destination.write_remote_data">>

\* The rules of the predicate, on the state of a transfer.
Rule1Holds ==
    /\ IF dest = "gs" THEN source = "bigquery" ELSE other_supports
    /\ "WRITE_REMOTE_DATA" \in source_features.locator \cap dest_features.locator
Rule2Holds ==
    /\ "LOCAL_DATA" \in source_features.locator
    /\ "WRITE_LOCAL_DATA" \in dest_features.locator
Accepted ==
    {n \in 1..Len(temp_locators) :
        temp_locators[n].source_accepts /\ temp_locators[n].dest_accepts}

\* C5: the predicate yields exactly one of remote, streaming, staged and
\* 'no transfer path', by strict priority: remote whenever rule 1 holds,
\* streaming only when rule 1 does not hold and rule 2 does, staged only when
\* neither holds and a temporary locator is accepted by both sides (the first
\* such locator being used), failure only when no rule holds.
C5_ExactlyOnePath ==
    xpc \in {"execute", "done"} =>
        /\ path \in {"remote", "streaming", "staged", "no transfer path"}
        /\ path = "remote" <=> Rule1Holds
        /\ path = "streaming" <=> (~Rule1Holds /\ Rule2Holds)
        /\ path = "staged" <=> (~Rule1Holds /\ ~Rule2Holds /\ Accepted # {})
        /\ path = "staged" =>
              /\ chosen \in Accepted
              /\ \A n \in Accepted : chosen <= n
        /\ path = "no transfer path" <=>
              (~Rule1Holds /\ ~Rule2Holds /\ Accepted = {})
        /\ path # "staged" => chosen = 0

\* rule 1 and rule 2 both hold and the remote path is taken
C5_Witness ==
    /\ xpc = "done" /\ path = "remote" /\ Rule2Holds
    /\ Accepted # {}

----------------------------------------------------------------------------
(* GsLocator::from_str. A string is a sequence of characters; Url is the    *)
(* url crate's parse of a string with the (non-special) scheme "gs".        *)

\* longest string parsed
MaxLen == 7

Chars == {"g", "s", ":", "/", "b", "?"}

GS_SCHEME == <<"g", "s", ":">>

starts_with(str, prefix) ==
    /\ Len(str) >= Len(prefix)
    /\ SubSeq(str, 1, Len(prefix)) = prefix

ends_with(str, c) == Len(str) > 0 /\ str[Len(str)] = c

\* Position of the first character of `str` that is in `stops`, or Len(str) + 1.
Find(str, stops) ==
    LET hits == {n \in 1..Len(str) : str[n] \in stops}
    IN  IF hits = {} THEN Len(str) + 1
        ELSE CHOOSE n \in hits : \A h \in hits : n <= h

\* s.parse::<Url>() of a string that starts with "gs:". After the scheme:
\* "//" opens an authority (host, then an optional ":" port), which ends at
\* the next "/" or "?"; the path runs to the first "?"; the rest is the query.
\* Without "//" there is no host and all up to the first "?" is the path.
Url_parse(str) ==
    LET rest == SubSeq(str, Len(GS_SCHEME) + 1, Len(str))
        q == Find(rest, {"?"})
        hier == SubSeq(rest, 1, q - 1)
        query == IF q > Len(rest) THEN None ELSE Some(SubSeq(rest, q + 1, Len(rest)))
    IN  IF starts_with(hier, <<"/", "/">>)
        THEN LET after == SubSeq(hier, 3, Len(hier))
                 e == Find(after, {"/"})
                 authority == SubSeq(after, 1, e - 1)
                 c == Find(authority, {":"})
                 host == SubSeq(authority, 1, c - 1)
                 port == SubSeq(authority, c + 1, Len(authority))
             IN  IF c <= Len(authority) /\ host = <<>>
                 THEN Err("empty host")
                 ELSE IF port # <<>>
                 THEN Err("invalid port number")
                 ELSE Ok([host |-> Some(host),
                          path |-> SubSeq(after, e, Len(after)),
                          query |-> query])
        ELSE Ok([host |-> None, path |-> hier, query |-> query])

\* Url::path
Url_path(url) == url.path

\* Url as fmt::Display: the serialization of the URL
Url_fmt(url) ==
    GS_SCHEME
    \o (IF url.host = None THEN <<>> ELSE <<"/", "/">> \o url.host[1])
    \o url.path
    \o (IF url.query = None THEN <<>> ELSE <<"?">> \o url.query[1])

GsLocator_from_str(str) ==
    IF starts_with(str, GS_SCHEME)
    THEN IF ~Url_parse(str).ok
         THEN Err("cannot parse")
         ELSE IF ~starts_with(Url_path(Url_parse(str).value[1]), <<"/">>)
         THEN Err("must start with gs://")
         ELSE IF ~ends_with(Url_path(Url_parse(str).value[1]), "/")
         THEN Err("must end with a '/'")
         ELSE Ok([url |-> Url_parse(str).value[1]])
    ELSE Err("expected to begin with gs://")

\* impl fmt::Display for GsLocator
GsLocator_fmt(self) == Url_fmt(self.url)

GsInit ==
    /\ s = <<>>
    /\ located = None
    /\ ArgsIdle /\ DrvIdle /\ XferIdle /\ TblIdle /\ SqlIdle

\* The caller's string, one character after the other.
Push ==
    \E c \in Chars :
        /\ located = None
        /\ Len(s) < MaxLen
        /\ s' = Append(s, c)
        /\ UNCHANGED located
        /\ UNCHANGED <<argsVars, drvVars, xferVars, tblVars, sqlVars>>

FromStr ==
    /\ located = None
    /\ located' = Some(GsLocator_from_str(s))
    /\ UNCHANGED s
    /\ UNCHANGED <<argsVars, drvVars, xferVars, tblVars, sqlVars>>

GsNext == Push \/ FromStr

SpecGs == GsInit /\ [][GsNext]_vars

\* C6: constructing a GsLocator from a string succeeds only if the string
\* begins with "gs://" and ends with "/"; no GsLocator exists whose URL
\* violates either constraint.
C6_GsUrlShape ==
    (located # None /\ located[1].ok) =>
        /\ starts_with(s, <<"g", "s", ":", "/", "/">>)
        /\ ends_with(s, "/")
        /\ starts_with(GsLocator_fmt(located[1].value[1]), <<"g", "s", ":", "/", "/">>)
        /\ ends_with(GsLocator_fmt(located[1].value[1]), "/")

----------------------------------------------------------------------------
(* Table::bigquery_can_import_from_csv. A column is modelled by what its    *)
(* own bigquery_can_import_from_csv() returns, a Result<bool>.              *)

\* most columns of a Table
MaxCols == 3

ColumnResults == {Ok(TRUE), Ok(FALSE), Err("column error")}

\* Every column is looked at, and the first error or `false` found decides.
RECURSIVE can_import_all_columns(_, _, _)
can_import_all_columns(cols, n, acc) ==
    IF n > Len(cols) THEN acc
    ELSE IF ~cols[n].ok THEN can_import_all_columns(cols, n + 1, cols[n])
    ELSE IF ~cols[n].value[1] /\ acc.ok
         THEN can_import_all_columns(cols, n + 1, Ok(FALSE))
    ELSE can_import_all_columns(cols, n + 1, acc)

\* for col in &self.columns, from column n on
RECURSIVE can_import_from(_, _)
can_import_from(cols, n) ==
    IF n > Len(cols) THEN Ok(TRUE)
    ELSE IF ~cols[n].ok THEN Err(cols[n].err)
    ELSE IF ~cols[n].value[1] THEN Ok(FALSE)
    ELSE can_import_from(cols, n + 1)

Table_bigquery_can_import_from_csv_eager(cols) ==
    can_import_all_columns(cols, 1, Ok(TRUE))

Table_bigquery_can_import_from_csv(cols) == can_import_from(cols, 1)

TblInit ==
    /\ columns = <<>>
    /\ replacedAt = 0
    /\ can_import = None
    /\ ArgsIdle /\ DrvIdle /\ XferIdle /\ GsIdle /\ SqlIdle

\* The table gets one more column.
AddColumn ==
    \E c \in ColumnResults :
        /\ can_import = None
        /\ replacedAt = 0
        /\ Len(columns) < MaxCols
        /\ columns' = Append(columns, c)
        /\ UNCHANGED <<replacedAt, can_import>>
        /\ UNCHANGED <<argsVars, drvVars, xferVars, gsVars, sqlVars>>

CanImportFromCsv ==
    /\ can_import = None
    /\ can_import' = Some(Table_bigquery_can_import_from_csv(columns))
    /\ UNCHANGED <<columns, replacedAt>>
    /\ UNCHANGED <<argsVars, drvVars, xferVars, gsVars, sqlVars>>

\* One column is replaced by a column known not to be CSV-importable.
ReplaceColumn ==
    \E n \in 1..Len(columns) :
        /\ can_import # None
        /\ replacedAt = 0
        /\ columns' = [columns EXCEPT ![n] = Ok(FALSE)]
        /\ replacedAt' = n
        /\ can_import' = None
        /\ UNCHANGED <<argsVars, drvVars, xferVars, gsVars, sqlVars>>

TblNext ==
    \/ AddColumn
    \/ CanImportFromCsv
    \/ ReplaceColumn

SpecTable == TblInit /\ [][TblNext]_vars

AllImportable == \A n \in 1..Len(columns) : columns[n] = Ok(TRUE)

\* C7 (as stated): the table's result is the conjunction of its columns': true
\* if and only if every column is CSV-importable, and false once any one
\* column, at whatever position, is replaced by a non-importable one.
C7_Conjunction ==
    can_import # None =>
        /\ can_import[1] = Ok(TRUE) <=> AllImportable
        /\ replacedAt # 0 => can_import[1] = Ok(FALSE)

\* The columns before the first one that is not importable.
BeforeFirstFalse ==
    {n \in 1..Len(columns) : \A k \in 1..n : columns[k] # Ok(FALSE)}

\* C7 (amended): the result is Ok(true) if and only if every column's is;
\* otherwise it is that of the first column whose result is not Ok(true). So
\* replacing a column by a non-importable one makes the result Ok(false)
\* unless a column before the first non-importable one fails with an error,
\* and then the result is that error.
C7_FirstNotImportable ==
    can_import # None =>
        /\ can_import[1] = Ok(TRUE) <=> AllImportable
        /\ replacedAt # 0 =>
              IF \A n \in BeforeFirstFalse : columns[n].ok
              THEN can_import[1] = Ok(FALSE)
              ELSE /\ ~can_import[1].ok
                   /\ \E n \in BeforeFirstFalse :
                         /\ can_import[1] = columns[n]
                         /\ \A k \in 1..(n - 1) : columns[k] = Ok(TRUE)

\* the second column replaced, behind a column whose check fails
C7_Witness ==
    /\ can_import # None
    /\ replacedAt = 2
    /\ ~columns[1].ok
    /\ ~can_import[1].ok

----------------------------------------------------------------------------
(* BqTable::write_import_sql. What is written to f is a sequence of chunks, *)
(* one for each write; any write may fail.                                  *)

\* most columns of a BqTable
MaxSqlCols == 3

ColumnNames == {"a", "b"}
TableNames == {"p.d.t"}

\* One write to f: `text` says what is written, for column `arg` (from 0) or
\* for no column (-1), naming `ident` (a sequence of strings).
Chunk(text, arg, ident) == [arg |-> arg, ident |-> ident, text |-> text]

\* col.write_import_udf(f, i)
BqColumn_write_import_udf(column, n) == Chunk("udf", n, <<column>>)
\* col.write_import_select_expr(f, i)
BqColumn_write_import_select_expr(column, n) == Chunk("select_expr", n, <<column>>)
\* Ident(&self.name.dotted().to_string())
Ident(name) == <<"BACKTICK", name, "BACKTICK">>

SqlInit ==
    /\ table \in {[columns |-> c, name |-> n] :
                    c \in SeqsUpTo(ColumnNames, MaxSqlCols), n \in TableNames}
    /\ out = <<>>
    /\ col = 0
    /\ sql_result = None
    /\ spc = "udfs"
    /\ ArgsIdle /\ DrvIdle /\ XferIdle /\ GsIdle /\ TblIdle

\* A write to f fails: the `?` returns the error.
WriteFails ==
    /\ spc \in {"udfs", "select", "comma", "select_expr", "from"}
    /\ spc = "udfs" => col < Len(table.columns)
    /\ spc = "comma" => col > 0
    /\ spc' = "error"
    /\ sql_result' = Some(Err("write failed"))
    /\ UNCHANGED <<table, out, col>>
    /\ UNCHANGED <<argsVars, drvVars, xferVars, gsVars, tblVars>>

\* for (i, col) in self.columns.iter().enumerate() { col.write_import_udf(f, i)?; }
WriteUdf ==
    /\ spc = "udfs"
    /\ IF col < Len(table.columns)
       THEN /\ out' = Append(out, BqColumn_write_import_udf(table.columns[col + 1], col))
            /\ col' = col + 1
            /\ spc' = spc
       ELSE /\ spc' = "select"
            /\ UNCHANGED <<out, col>>
    /\ UNCHANGED <<table, sql_result>>
    /\ UNCHANGED <<argsVars, drvVars, xferVars, gsVars, tblVars>>

\* write!(f, "SELECT ")?; and the head of the second loop
WriteSelect ==
    /\ spc = "select"
    /\ out' = Append(out, Chunk("SELECT ", -1, <<>>))
    /\ col' = 0
    /\ spc' = IF Len(table.columns) = 0 THEN "from" ELSE "comma"
    /\ UNCHANGED <<table, sql_result>>
    /\ UNCHANGED <<argsVars, drvVars, xferVars, gsVars, tblVars>>

\* if i >= 0 { write!(f, ",")?; }
WriteComma_always ==
    /\ spc = "comma"
    /\ out' = Append(out, Chunk(",", -1, <<>>))
    /\ spc' = "select_expr"
    /\ UNCHANGED <<table, col, sql_result>>
    /\ UNCHANGED <<argsVars, drvVars, xferVars, gsVars, tblVars>>

\* if i > 0 { write!(f, ",")?; }
WriteComma ==
    /\ spc = "comma"
    /\ out' = IF col > 0 THEN Append(out, Chunk(",", -1, <<>>)) ELSE out
    /\ spc' = "select_expr"
    /\ UNCHANGED <<table, col, sql_result>>
    /\ UNCHANGED <<argsVars, drvVars, xferVars, gsVars, tblVars>>

\* col.write_import_select_expr(f, i)?; and the head of the loop
WriteSelectExpr ==
    /\ spc = "select_expr"
    /\ out' = Append(out, BqColumn_write_import_select_expr(table.columns[col + 1], col))
    /\ col' = col + 1
    /\ spc' = IF col + 1 < Len(table.columns) THEN "comma" ELSE "from"
    /\ UNCHANGED <<table, sql_result>>
    /\ UNCHANGED <<argsVars, drvVars, xferVars, gsVars, tblVars>>

\* write!(f, " FROM {}", Ident(..))?; Ok(())
WriteFrom ==
    /\ spc = "from"
    /\ out' = Append(out, Chunk(" FROM ", -1, Ident(table.name)))
    /\ spc' = "done"
    /\ sql_result' = Some(Ok("()"))
    /\ UNCHANGED <<table, col>>
    /\ UNCHANGED <<argsVars, drvVars, xferVars, gsVars, tblVars>>

SqlNext ==
    \/ WriteFails
    \/ WriteUdf
    \/ WriteSelect
    \/ WriteComma
    \/ WriteSelectExpr
    \/ WriteFrom

SpecSql == SqlInit /\ [][SqlNext]_vars

\* The chunks of the statement, by position.
Count(q, text) == Cardinality({n \in 1..Len(q) : q[n].text = text})
IsPrefix(p, q) == Len(p) <= Len(q) /\ SubSeq(q, 1, Len(p)) = p

\* The statement for the table: the UDFs of all columns in column order,
\* SELECT, the select expressions in column order with a comma between two
\* of them, FROM and the quoted table name.
Statement ==
    LET cols == table.columns
        N == Len(cols)
    IN  [n \in 1..N |-> Chunk("udf", n - 1, <<cols[n]>>)]
        \o <<Chunk("SELECT ", -1, <<>>)>>
        \o [n \in 1..(IF N = 0 THEN 0 ELSE 2 * N - 1) |->
              IF n % 2 = 1
              THEN Chunk("select_expr", (n - 1) \div 2, <<cols[(n + 1) \div 2]>>)
              ELSE Chunk(",", -1, <<>>)]
        \o <<Chunk(" FROM ", -1, <<"BACKTICK", table.name, "BACKTICK">>)>>

\* C8: write_import_sql writes, in this order, the UDF definitions of all
\* columns in column order, exactly one SELECT, one select expression per
\* column in column order separated by commas (none leading or trailing),
\* exactly one FROM with the quoted table name; no UDF definition follows
\* SELECT; and if a write fails the operation stops and returns the error.
C8_ImportSqlOrder ==
    /\ IsPrefix(out, Statement)
    /\ \A m, n \in 1..Len(out) :
          (m < n /\ out[m].text = "SELECT ") => out[n].text # "udf"
    /\ spc = "done" =>
          /\ out = Statement
          /\ sql_result = Some(Ok("()"))
          /\ Count(out, "SELECT ") = 1 /\ Count(out, " FROM ") = 1
          /\ Count(out, "select_expr") = Len(table.columns)
          /\ Count(out, "udf") = Len(table.columns)
          /\ out[Len(out)].text = " FROM "
          /\ \A n \in 1..Len(out) :
                out[n].text = "," =>
                    /\ n > 1 /\ out[n - 1].text = "select_expr"
                    /\ n < Len(out) /\ out[n + 1].text = "select_expr"
    /\ spc = "error" =>
          /\ sql_result # None /\ ~sql_result[1].ok
          /\ out # Statement
          /\ ~ENABLED SqlNext
    /\ spc \notin {"done", "error"} => sql_result = None

\* three columns written out in full
C8_Witness ==
    /\ spc = "done"
    /\ Len(table.columns) = 3
    /\ Count(out, ",") = 2

====
